---- MODULE Spec2Model ----
(***************************************************************************)
(* gedcom-photos (src/src/main.py): a line-by-line scan of a GEDCOM file   *)
(* that derives a person identifier from the stored name and birth-date    *)
(* lines and downloads every `2 FILE` photo under a generated filename.    *)
(*                                                                         *)
(* A Python str is modelled as a sequence of one-character strings, so     *)
(* that the regular expressions, strip/split/lower/re.sub and the f-string *)
(* formatting are computed character by character as the code does.        *)
(* An optional value (None or a str) is a record [some, val].              *)
(***************************************************************************)
EXTENDS Integers, Sequences, FiniteSets, TLC

(***************************************************************************)
(* Bounds of the model.                                                    *)
(***************************************************************************)
\* longest input file, in lines, of the specification Spec
MaxLines == 4
\* longest input file, in lines, of the specification SpecLong
MaxLongLines == 7
\* longest input file, in lines, of the specification SpecOver
MaxOverLines == 5
\* longest given-name segment, in characters, of the specification SpecId
MaxGivenLen == 3
\* number of calls of create_person_id on the same arguments in SpecId
MaxCalls == 2

(***************************************************************************)
(* Python values.                                                          *)
(***************************************************************************)
None == [some |-> FALSE]
Some(v) == [some |-> TRUE, val |-> v]
\* Python truthiness of an Optional[str]: None and "" are falsy
Truthy(o) == o.some /\ o.val # <<>>

UpperCase == <<"A","B","C","D","E","F","G","H","I","J","K","L","M",
               "N","O","P","Q","R","S","T","U","V","W","X","Y","Z">>
LowerCase == <<"a","b","c","d","e","f","g","h","i","j","k","l","m",
               "n","o","p","q","r","s","t","u","v","w","x","y","z">>
DigitChars == <<"0","1","2","3","4","5","6","7","8","9">>

Range(s) == { s[i] : i \in DOMAIN s }
UpperSet == Range(UpperCase)
LowerSet == Range(LowerCase)
DigitSet == Range(DigitChars)
\* \d of the re module, on ASCII text
IsDigit(c) == c \in DigitSet
\* \w of the re module, on ASCII text: a letter, a digit or the underscore
WordSet == UpperSet \cup LowerSet \cup DigitSet \cup {"_"}
IsWordChar(c) == c \in WordSet
\* the characters str.strip() and str.split() treat as whitespace
IsSpace(c) == c \in {" ", "\t", "\r", "\n"}

\* str.lower() on one character
LowerOf == [c \in UpperSet |-> LowerCase[CHOOSE i \in DOMAIN UpperCase : UpperCase[i] = c]]
LowerChar(c) == IF c \in UpperSet THEN LowerOf[c] ELSE c
\* str.lower()
lower(s) == [i \in DOMAIN s |-> LowerChar(s[i])]

\* s[n:] of Python, n >= 0
Drop(s, n) == SubSeq(s, n + 1, Len(s))
\* str.startswith(prefix)
startswith(s, prefix) ==
  /\ Len(prefix) <= Len(s)
  /\ SubSeq(s, 1, Len(prefix)) = prefix
\* `sub in s` of Python
Contains(s, sub) ==
  \E i \in 0..(Len(s) - Len(sub)) : SubSeq(s, i + 1, i + Len(sub)) = sub

\* str.strip(): leading and trailing whitespace removed
strip(s) ==
  LET keep == { i \in DOMAIN s : ~IsSpace(s[i]) }
  IN  IF keep = {} THEN <<>>
      ELSE LET lo == CHOOSE i \in keep : \A j \in keep : i <= j
               hi == CHOOSE i \in keep : \A j \in keep : j <= i
           IN  SubSeq(s, lo, hi)

\* str.split(): the maximal runs of non-whitespace characters, in order
RECURSIVE SplitFrom(_, _, _)
SplitFrom(s, i, word) ==
  IF i > Len(s)
    THEN IF word = <<>> THEN <<>> ELSE <<word>>
    ELSE IF IsSpace(s[i])
           THEN (IF word = <<>> THEN <<>> ELSE <<word>>) \o SplitFrom(s, i + 1, <<>>)
           ELSE SplitFrom(s, i + 1, Append(word, s[i]))
split(s) == SplitFrom(s, 1, <<>>)

\* "_".join(parts)
RECURSIVE join(_)
join(parts) ==
  IF parts = <<>> THEN <<>>
  ELSE IF Len(parts) = 1 THEN parts[1]
  ELSE parts[1] \o <<"_">> \o join(Tail(parts))

\* re.sub(r'[^a-z0-9_]', '', s): pure deletion of every other character
KeptSet == LowerSet \cup DigitSet \cup {"_"}
sub_non_alnum(s) == SelectSeq(s, LAMBDA c : c \in KeptSet)

\* int(digits) on a run of decimal digits
ValueOf == [c \in DigitSet |-> (CHOOSE i \in DOMAIN DigitChars : DigitChars[i] = c) - 1]
DigitValue(c) == ValueOf[c]
RECURSIVE int(_)
int(digits) ==
  IF digits = <<>> THEN 0
  ELSE int(SubSeq(digits, 1, Len(digits) - 1)) * 10 + DigitValue(digits[Len(digits)])

\* str(n) for n >= 0
RECURSIVE str(_)
str(n) ==
  IF n < 10 THEN <<DigitChars[n + 1]>>
  ELSE str(n \div 10) \o <<DigitChars[(n % 10) + 1]>>
\* the format without its zero padding
format_02d_unpadded(n) == str(n)
\* f"{n:02d}": decimal, left-padded with zeros to a width of at least two
format_02d(n) ==
  LET digits == str(n)
  IN  IF Len(digits) < 2 THEN <<"0">> \o digits ELSE digits

\* length of the longest run of characters of the set class that starts at s[i]
RunLen(s, i, class) ==
  LET ns == { n \in 0..(IF i <= Len(s) THEN Len(s) - i + 1 ELSE 0) :
                \A k \in i..(i + n - 1) : s[k] \in class }
  IN  CHOOSE n \in ns : \A m \in ns : m <= n

NAME_PREFIX == <<"1"," ","N","A","M","E"," ">>
DATE_PREFIX == <<"2"," ","D","A","T","E"," ">>
FILE_PREFIX == <<"2"," ","F","I","L","E"," ">>
INDI_PREFIX == <<"0"," ","@","I">>
INDI_TOKEN  == <<" ","I","N","D","I">>

(***************************************************************************)
(* re.match(r'1 NAME (.*?) /(.*?)/', name): anchored at the start; the     *)
(* first lazy group is the shortest text followed by " /" after which a    *)
(* closing "/" still exists, the second the shortest text up to that "/".  *)
(* The result is None or the two groups.                                   *)
(***************************************************************************)
name_match(name) ==
  IF ~startswith(name, NAME_PREFIX) THEN None
  ELSE
    LET p == Len(NAME_PREFIX)
        Closes(i) == { j \in (p + i + 3)..Len(name) : name[j] = "/" }
        Opens == { i \in 0..(Len(name) - p) :
                     /\ p + i + 2 <= Len(name)
                     /\ name[p + i + 1] = " "
                     /\ name[p + i + 2] = "/"
                     /\ Closes(i) # {} }
    IN  IF Opens = {} THEN None
        ELSE LET i == CHOOSE x \in Opens : \A y \in Opens : x <= y
                 j == CHOOSE x \in Closes(i) : \A y \in Closes(i) : x <= y
             IN  Some([g1 |-> SubSeq(name, p + 1, p + i),
                       g2 |-> SubSeq(name, p + i + 3, j - 1)])

(***************************************************************************)
(* re.match(r'2 DATE (\d+) (\w+) (\d+)', birth_date): each greedy group is *)
(* the whole run of its class (a shorter one could not be followed by the  *)
(* space the pattern requires), and text after the year is not examined.   *)
(***************************************************************************)
date_match(birth_date) ==
  IF ~startswith(birth_date, DATE_PREFIX) THEN None
  ELSE
    LET s  == birth_date
        a  == Len(DATE_PREFIX) + 1
        n1 == RunLen(s, a, DigitSet)
        b  == a + n1 + 1
        n2 == RunLen(s, b, WordSet)
        c  == b + n2 + 1
        n3 == RunLen(s, c, DigitSet)
    IN  IF /\ n1 >= 1
           /\ a + n1 <= Len(s) /\ s[a + n1] = " "
           /\ n2 >= 1
           /\ b + n2 <= Len(s) /\ s[b + n2] = " "
           /\ n3 >= 1
          THEN Some([g1 |-> SubSeq(s, a, a + n1 - 1),
                     g2 |-> SubSeq(s, b, b + n2 - 1),
                     g3 |-> SubSeq(s, c, c + n3 - 1)])
          ELSE None

\* the abbreviated month names of the C locale, as _strptime keeps them (lowercased)
a_month == << <<"j","a","n">>, <<"f","e","b">>, <<"m","a","r">>, <<"a","p","r">>,
              <<"m","a","y">>, <<"j","u","n">>, <<"j","u","l">>, <<"a","u","g">>,
              <<"s","e","p">>, <<"o","c","t">>, <<"n","o","v">>, <<"d","e","c">> >>

\* a month lookup that yields month 0 instead of failing
strptime_b_lenient(month) ==
  LET hits == { i \in DOMAIN a_month : a_month[i] = lower(month) }
  IN  IF hits = {} THEN Some(0) ELSE Some(CHOOSE i \in hits : TRUE)

\* datetime.strptime(month, '%b').month: the whole token must be one of the
\* abbreviations, matched ignoring case; None stands for the ValueError
strptime_b(month) ==
  LET hits == { i \in DOMAIN a_month : a_month[i] = lower(month) }
  IN  IF hits = {} THEN None ELSE Some(CHOOSE i \in hits : TRUE)

(***************************************************************************)
(* create_person_id(name, birth_date)                                      *)
(***************************************************************************)
create_person_id(name, birth_date) ==
  LET nm == name_match(name)
  IN  IF ~nm.some THEN None
      ELSE
        LET given_name == strip(nm.val.g1)
            surname == strip(nm.val.g2)
            dm == date_match(birth_date)
        IN  IF ~dm.some THEN None
            ELSE
              LET day == int(dm.val.g1)
                  month == dm.val.g2
                  year == dm.val.g3
                  month_num == strptime_b(month)
              IN  IF ~month_num.some THEN None
                  ELSE
                    LET date_part == year \o <<"-">> \o format_02d(month_num.val)
                                          \o <<"-">> \o format_02d(day)
                        name_parts == [k \in DOMAIN split(given_name) |->
                                         strip(split(given_name)[k])] \o <<surname>>
                        name_part == sub_non_alnum(lower(join(name_parts)))
                    IN  Some(date_part \o <<"_">> \o name_part)


(***************************************************************************)
(* The run: main, validate_file, process_gedcom_file and download_photo.   *)
(***************************************************************************)
VARIABLES
  pc,                  \* where main stands: "start", "mkdir", "scan", "download", "done"
  file_exists,         \* os.path.exists(args.ged_file)
  file_readable,       \* os.access(args.ged_file, os.R_OK)
  photos_dir,          \* whether this run has created (or found) ./photos
  lines,               \* the raw lines the for loop has read so far, in order
  current_person,      \* locals of process_gedcom_file
  current_name,
  current_birth_date,
  photo_count,
  calls,               \* the calls of download_photo so far: [line, url, filename]
  in_flight,           \* the calls of download_photo that have not returned
  returns,             \* what each finished call of download_photo returned (FALSE: it failed)
  exit_code,           \* what main returned, None while it runs
  id_args,             \* SpecId: the texts the two arguments are built from
  id_results           \* SpecId: what each call of create_person_id returned

run_vars == <<pc, file_exists, file_readable, photos_dir, lines, current_person,
              current_name, current_birth_date, photo_count, calls, in_flight,
              returns, exit_code>>
id_vars == <<id_args, id_results>>
vars == <<run_vars, id_vars>>

\* a validation that forgets the readability test
validate_file_exists_only(exists, readable) == exists
\* validate_file(file_path)
validate_file(exists, readable) ==
  IF ~exists THEN FALSE
  ELSE IF ~readable THEN FALSE
  ELSE TRUE

\* line.startswith('0 @I') and ' INDI' in line
is_new_person(line) == startswith(line, INDI_PREFIX) /\ Contains(line, INDI_TOKEN)

PHOTOS_DIR == <<"p","h","o","t","o","s","/">>
JPG == <<".","j","p","g">>
\* photos_dir / f"{person_id}_{photo_count:02d}.jpg"
photo_filename(person_id, count) ==
  PHOTOS_DIR \o person_id \o <<"_">> \o format_02d(count) \o JPG

\* main up to the call of process_gedcom_file: exit code 1 on an invalid file
Main ==
  /\ pc = "start"
  /\ IF ~validate_file(file_exists, file_readable)
       THEN pc' = "done" /\ exit_code' = Some(1)
       ELSE pc' = "mkdir" /\ UNCHANGED exit_code
  /\ UNCHANGED <<file_exists, file_readable, photos_dir, lines, current_person,
                 current_name, current_birth_date, photo_count, calls, in_flight,
                 returns, id_vars>>

\* process_gedcom_file before the loop: mkdir(exist_ok=True) and the locals
MkDir ==
  /\ pc = "mkdir"
  /\ photos_dir' = TRUE
  /\ current_person' = None
  /\ current_name' = None
  /\ current_birth_date' = None
  /\ photo_count' = 0
  /\ pc' = "scan"
  /\ UNCHANGED <<file_exists, file_readable, lines, calls, in_flight, returns,
                 exit_code, id_vars>>

\* a new-person line that keeps the stored name
NewPerson_KeepsName(raw) ==
  LET line == strip(raw)
  IN  /\ is_new_person(line)
      /\ current_person' = Some(line)
      /\ current_birth_date' = None
      /\ photo_count' = 0
      /\ lines' = Append(lines, raw)
      /\ UNCHANGED <<pc, file_exists, file_readable, photos_dir, current_name, calls,
                     in_flight, returns, exit_code, id_vars>>

\* a new-person line that keeps the photo counter
NewPerson_KeepsCount(raw) ==
  LET line == strip(raw)
  IN  /\ is_new_person(line)
      /\ current_person' = Some(line)
      /\ current_name' = None
      /\ current_birth_date' = None
      /\ lines' = Append(lines, raw)
      /\ UNCHANGED <<pc, file_exists, file_readable, photos_dir, photo_count, calls,
                     in_flight, returns, exit_code, id_vars>>

\* the loop body on a new-person line
NewPerson(raw) ==
  LET line == strip(raw)
  IN  /\ is_new_person(line)
      /\ current_person' = Some(line)
      /\ current_name' = None
      /\ current_birth_date' = None
      /\ photo_count' = 0
      /\ lines' = Append(lines, raw)
      /\ UNCHANGED <<pc, file_exists, file_readable, photos_dir, calls, in_flight,
                     returns, exit_code, id_vars>>

\* a name line that is stored only when no name is stored yet
GetName_FirstWins(raw) ==
  LET line == strip(raw)
  IN  /\ ~is_new_person(line)
      /\ startswith(line, NAME_PREFIX)
      /\ current_name' = IF current_name.some THEN current_name ELSE Some(line)
      /\ lines' = Append(lines, raw)
      /\ UNCHANGED <<pc, file_exists, file_readable, photos_dir, current_person,
                     current_birth_date, photo_count, calls, in_flight, returns,
                     exit_code, id_vars>>

\* the loop body on a name line
GetName(raw) ==
  LET line == strip(raw)
  IN  /\ ~is_new_person(line)
      /\ startswith(line, NAME_PREFIX)
      /\ current_name' = Some(line)
      /\ lines' = Append(lines, raw)
      /\ UNCHANGED <<pc, file_exists, file_readable, photos_dir, current_person,
                     current_birth_date, photo_count, calls, in_flight, returns,
                     exit_code, id_vars>>

\* the loop body on a birth-date line
GetBirthDate(raw) ==
  LET line == strip(raw)
  IN  /\ ~is_new_person(line)
      /\ ~startswith(line, NAME_PREFIX)
      /\ startswith(line, DATE_PREFIX)
      /\ current_birth_date' = Some(line)
      /\ lines' = Append(lines, raw)
      /\ UNCHANGED <<pc, file_exists, file_readable, photos_dir, current_person,
                     current_name, photo_count, calls, in_flight, returns,
                     exit_code, id_vars>>

\* a photo line that takes a sequence number even when it is skipped
ProcessPhoto_CountsSkipped(raw) ==
  LET line == strip(raw)
      person_id == create_person_id(current_name.val, current_birth_date.val)
      url == Drop(line, 7)
      call == [line |-> Len(lines) + 1, url |-> url,
               filename |-> photo_filename(person_id.val, photo_count + 1)]
  IN  /\ ~is_new_person(line)
      /\ ~startswith(line, NAME_PREFIX)
      /\ ~startswith(line, DATE_PREFIX)
      /\ startswith(line, FILE_PREFIX)
      /\ lines' = Append(lines, raw)
      /\ photo_count' = photo_count + 1
      /\ IF Truthy(current_name) /\ Truthy(current_birth_date) /\ Truthy(person_id)
           THEN /\ calls' = Append(calls, call)
                /\ in_flight' = in_flight \cup {call}
                /\ pc' = "download"
           ELSE UNCHANGED <<calls, in_flight, pc>>
      /\ UNCHANGED <<file_exists, file_readable, photos_dir, current_person,
                     current_name, current_birth_date, returns, exit_code, id_vars>>

\* a photo line whose download is started and not waited for
ProcessPhoto_Async(raw) ==
  LET line == strip(raw)
      person_id == create_person_id(current_name.val, current_birth_date.val)
      url == Drop(line, 7)
      call == [line |-> Len(lines) + 1, url |-> url,
               filename |-> photo_filename(person_id.val, photo_count + 1)]
  IN  /\ ~is_new_person(line)
      /\ ~startswith(line, NAME_PREFIX)
      /\ ~startswith(line, DATE_PREFIX)
      /\ startswith(line, FILE_PREFIX)
      /\ lines' = Append(lines, raw)
      /\ IF Truthy(current_name) /\ Truthy(current_birth_date) /\ Truthy(person_id)
           THEN /\ photo_count' = photo_count + 1
                /\ calls' = Append(calls, call)
                /\ in_flight' = in_flight \cup {call}
           ELSE UNCHANGED <<photo_count, calls, in_flight>>
      /\ UNCHANGED <<pc, file_exists, file_readable, photos_dir, current_person,
                     current_name, current_birth_date, returns, exit_code, id_vars>>

\* the loop body on a photo line, up to and including the call of download_photo
ProcessPhoto(raw) ==
  LET line == strip(raw)
      person_id == create_person_id(current_name.val, current_birth_date.val)
      url == Drop(line, 7)
      call == [line |-> Len(lines) + 1, url |-> url,
               filename |-> photo_filename(person_id.val, photo_count + 1)]
  IN  /\ ~is_new_person(line)
      /\ ~startswith(line, NAME_PREFIX)
      /\ ~startswith(line, DATE_PREFIX)
      /\ startswith(line, FILE_PREFIX)
      /\ lines' = Append(lines, raw)
      /\ IF Truthy(current_name) /\ Truthy(current_birth_date) /\ Truthy(person_id)
           THEN /\ photo_count' = photo_count + 1
                /\ calls' = Append(calls, call)
                /\ in_flight' = in_flight \cup {call}
                /\ pc' = "download"
           ELSE UNCHANGED <<photo_count, calls, in_flight, pc>>
      /\ UNCHANGED <<file_exists, file_readable, photos_dir, current_person,
                     current_name, current_birth_date, returns, exit_code, id_vars>>

\* the loop body on any other line
OtherLine(raw) ==
  LET line == strip(raw)
  IN  /\ ~is_new_person(line)
      /\ ~startswith(line, NAME_PREFIX)
      /\ ~startswith(line, DATE_PREFIX)
      /\ ~startswith(line, FILE_PREFIX)
      /\ lines' = Append(lines, raw)
      /\ UNCHANGED <<pc, file_exists, file_readable, photos_dir, current_person,
                     current_name, current_birth_date, photo_count, calls,
                     in_flight, returns, exit_code, id_vars>>

\* one iteration of `for line in f` on a file of at most max lines over alphabet
ReadLine(alphabet, max) ==
  /\ pc = "scan"
  /\ Len(lines) < max
  /\ \E raw \in alphabet :
       \/ NewPerson(raw)
       \/ GetName(raw)
       \/ GetBirthDate(raw)
       \/ ProcessPhoto(raw)
       \/ OtherLine(raw)

\* a download_photo whose failure propagates as an exception out of main
download_photo_raises ==
  /\ pc = "download"
  /\ in_flight' = {}
  /\ \E ok \in BOOLEAN :
       /\ returns' = Append(returns, ok)
       /\ IF ok THEN pc' = "scan" /\ UNCHANGED exit_code
                ELSE pc' = "done" /\ exit_code' = Some(1)
  /\ UNCHANGED <<file_exists, file_readable, photos_dir, lines, current_person,
                 current_name, current_birth_date, photo_count, calls, id_vars>>

\* download_photo returns: True, or False after any exception of the request or
\* of the write; the caller discards the value
download_photo ==
  /\ pc = "download"
  /\ \E ok \in BOOLEAN : returns' = Append(returns, ok)
  /\ in_flight' = {}
  /\ pc' = "scan"
  /\ UNCHANGED <<file_exists, file_readable, photos_dir, lines, current_person,
                 current_name, current_birth_date, photo_count, calls, exit_code,
                 id_vars>>

\* the file is exhausted: process_gedcom_file returns and main returns 0
EndOfFile ==
  /\ pc = "scan"
  /\ pc' = "done"
  /\ exit_code' = Some(0)
  /\ UNCHANGED <<file_exists, file_readable, photos_dir, lines, current_person,
                 current_name, current_birth_date, photo_count, calls, in_flight,
                 returns, id_vars>>

(***************************************************************************)
(* Input lines. Every line a file iteration yields ends with its newline.  *)
(***************************************************************************)
L_INDI      == <<"0"," ","@","I","1","@"," ","I","N","D","I","\n">>
L_NAME      == <<"1"," ","N","A","M","E"," ","A","l"," ","/","N","g","/","\n">>
L_NAME2     == <<"1"," ","N","A","M","E"," ","B","o"," ","/","L","i","/","\n">>
L_NAME_BARE == <<"1"," ","N","A","M","E"," ","A","l"," ","N","g","\n">>
L_NAME_TIGHT == <<"1"," ","N","A","M","E"," ","A","l","/","N","g","/","\n">>
L_DATE      == <<"2"," ","D","A","T","E"," ","1","5"," ","J","a","n"," ","1","9","8","0","\n">>
L_DATE2     == <<"2"," ","D","A","T","E"," ","2"," ","F","E","B"," ","1","9","9","0","\n">>
L_DATE_SHORT == <<"2"," ","D","A","T","E"," ","J","a","n"," ","1","9","8","0","\n">>
L_DATE_MONTH == <<"2"," ","D","A","T","E"," ","1","5"," ","F","o","o"," ","1","9","8","0","\n">>
L_FILE      == <<"2"," ","F","I","L","E"," ","u","1","\n">>
L_FILE2     == <<" "," ","2"," ","F","I","L","E"," ","u","2"," ","\n">>
L_OTHER     == <<"1"," ","S","E","X"," ","M","\n">>

FullLines == {L_INDI, L_NAME, L_NAME_BARE, L_NAME_TIGHT, L_DATE, L_DATE_SHORT,
              L_DATE_MONTH, L_FILE, L_FILE2, L_OTHER}
CoreLines == {L_INDI, L_NAME, L_DATE, L_FILE, L_OTHER}
OverLines == {L_INDI, L_NAME, L_NAME2, L_DATE, L_DATE2, L_FILE, L_OTHER}

NoArgs == [given |-> <<>>, surname |-> <<>>, day |-> <<>>, month |-> <<>>, year |-> <<>>]

RunInit ==
  /\ pc = "start"
  /\ file_exists \in BOOLEAN
  /\ file_readable \in BOOLEAN
  /\ file_readable => file_exists
  /\ photos_dir = FALSE
  /\ lines = <<>>
  /\ current_person = None
  /\ current_name = None
  /\ current_birth_date = None
  /\ photo_count = 0
  /\ calls = <<>>
  /\ in_flight = {}
  /\ returns = <<>>
  /\ exit_code = None

Init ==
  /\ RunInit
  /\ id_args = NoArgs
  /\ id_results = <<>>

Next ==
  \/ Main
  \/ MkDir
  \/ ReadLine(FullLines, MaxLines)
  \/ download_photo
  \/ EndOfFile

Spec == Init /\ [][Next]_vars

NextLong ==
  \/ Main
  \/ MkDir
  \/ ReadLine(CoreLines, MaxLongLines)
  \/ download_photo
  \/ EndOfFile

SpecLong == Init /\ [][NextLong]_vars

NextOver ==
  \/ Main
  \/ MkDir
  \/ ReadLine(OverLines, MaxOverLines)
  \/ download_photo
  \/ EndOfFile

SpecOver == Init /\ [][NextOver]_vars

(***************************************************************************)
(* create_person_id on its own: the arguments are built from a given-name  *)
(* segment, a surname, a day, a month token and a year, and the function   *)
(* is called MaxCalls times on them.                                       *)
(***************************************************************************)
\* the name line `1 NAME <given> /<surname>/`
NameLine(a) == NAME_PREFIX \o a.given \o <<" ","/">> \o a.surname \o <<"/">>
\* the date line `2 DATE <d> <mon> <yyyy>`
DateLine(a) == DATE_PREFIX \o a.day \o <<" ">> \o a.month \o <<" ">> \o a.year

\* every text of at most n characters over the set chars
RECURSIVE Texts(_, _)
Texts(chars, n) ==
  IF n = 0 THEN {<<>>}
  ELSE LET shorter == Texts(chars, n - 1)
       IN  shorter \cup { Append(t, c) : t \in shorter, c \in chars }

GivenChars == {"A", "b", " ", "."}
Givens == Texts(GivenChars, MaxGivenLen) \cup {<<"J","o","h","n">>, <<"M","a","r","y"," ","A","n","n">>, <<" ","J","."," ","R","_","2"," ">>}
Surnames == {<<"S","m","i","t","h">>, <<"O","'","N","e","i","l">>, <<" ","d","e"," ","L","a">>, <<>>}
Days == {<<"5">>, <<"0","5">>, <<"1","5">>, <<"1","2","3">>}
Months == {<<"J","a","n">>, <<"F","E","B">>, <<"s","e","p">>, <<"m","A","Y">>, <<"D","e","c">>, <<"F","o","o">>}
Years == {<<"1","9","8","0">>, <<"8","0">>}

InitId ==
  /\ RunInit
  /\ file_exists
  /\ file_readable
  /\ id_args \in [given : Givens, surname : Surnames, day : Days,
                  month : Months, year : Years]
  /\ id_results = <<>>

\* one call create_person_id(name, birth_date)
CallCreatePersonId ==
  /\ Len(id_results) < MaxCalls
  /\ id_results' = Append(id_results,
                          create_person_id(NameLine(id_args), DateLine(id_args)))
  /\ UNCHANGED <<run_vars, id_args>>

NextId == CallCreatePersonId

SpecId == InitId /\ [][NextId]_vars

(***************************************************************************)
(* Vocabulary of the claims, stated on the input and on the calls made.    *)
(***************************************************************************)
EndsWith(s, suffix) ==
  /\ Len(suffix) <= Len(s)
  /\ SubSeq(s, Len(s) - Len(suffix) + 1, Len(s)) = suffix

\* the identifier's month field for each recognized abbreviation
MonthField == { <<<<"j","a","n">>, <<"0","1">>>>, <<<<"f","e","b">>, <<"0","2">>>>, <<<<"m","a","r">>, <<"0","3">>>>,
                <<<<"a","p","r">>, <<"0","4">>>>, <<<<"m","a","y">>, <<"0","5">>>>, <<<<"j","u","n">>, <<"0","6">>>>,
                <<<<"j","u","l">>, <<"0","7">>>>, <<<<"a","u","g">>, <<"0","8">>>>, <<<<"s","e","p">>, <<"0","9">>>>,
                <<<<"o","c","t">>, <<"1","0">>>>, <<<<"n","o","v">>, <<"1","1">>>>, <<<<"d","e","c">>, <<"1","2">>>> }
\* one character with its case folded
Folded(c) ==
  IF \E i \in 1..26 : UpperCase[i] = c
    THEN LowerCase[CHOOSE i \in 1..26 : UpperCase[i] = c]
    ELSE c
\* a month token is recognized when it is an abbreviation in any letter case
RecognizedMonth(m) == \E p \in MonthField : p[1] = [i \in DOMAIN m |-> Folded(m[i])]
ExpectedMonth(m) ==
  (CHOOSE p \in MonthField : p[1] = [i \in DOMAIN m |-> Folded(m[i])])[2]

\* the day without its leading zeros, then zero-padded to two digits
RECURSIVE NoLeadingZeros(_)
NoLeadingZeros(d) ==
  IF d # <<>> /\ Head(d) = "0" THEN NoLeadingZeros(Tail(d)) ELSE d
ExpectedDay(d) ==
  LET t == NoLeadingZeros(d)
  IN  IF t = <<>> THEN <<"0","0">>
      ELSE IF Len(t) = 1 THEN <<"0">> \o t
      ELSE t

\* the given-name segment read left to right: every whitespace-separated part
\* followed by one underscore
RECURSIVE PartsWithUnderscores(_, _)
PartsWithUnderscores(g, i) ==
  IF i > Len(g) THEN <<>>
  ELSE IF g[i] \in {" ", "\t"} THEN PartsWithUnderscores(g, i + 1)
  ELSE <<g[i]>>
       \o (IF i = Len(g) \/ g[i + 1] \in {" ", "\t"} THEN <<"_">> ELSE <<>>)
       \o PartsWithUnderscores(g, i + 1)

\* lowercased, and every character outside [a-z0-9_] deleted
RECURSIVE Cleaned(_)
Cleaned(t) ==
  IF t = <<>> THEN <<>>
  ELSE LET c == Folded(Head(t))
       IN  (IF c \in LowerSet \cup DigitSet \cup {"_"} THEN <<c>> ELSE <<>>)
           \o Cleaned(Tail(t))

\* <yyyy>-<mm>-<dd>_<name part>
ExpectedId(a) ==
  a.year \o <<"-">> \o ExpectedMonth(a.month) \o <<"-">> \o ExpectedDay(a.day)
         \o <<"_">> \o Cleaned(PartsWithUnderscores(a.given, 1) \o a.surname)

JohnSmith == [given |-> <<"J","o","h","n">>, surname |-> <<"S","m","i","t","h">>, day |-> <<"1","5">>,
              month |-> <<"J","a","n">>, year |-> <<"1","9","8","0">>]

(***************************************************************************)
(* C5: for every name line `1 NAME <given> /<surname>/` (given-name        *)
(* segment and surname free of "/") and every date line `2 DATE <d> <mon>  *)
(* <yyyy>` with a recognized month abbreviation, create_person_id returns  *)
(* <yyyy>-<mm>-<dd>_<name part>: month and day zero-padded to two digits,  *)
(* the name part the whitespace-separated given-name parts in order, then  *)
(* the surname, lowercased, joined by underscores, every character outside *)
(* [a-z0-9_] deleted; every repeated call returns the same identifier; and *)
(* John /Smith/ with 15 Jan 1980 gives 1980-01-15_john_smith.              *)
(***************************************************************************)
C5_IdentifierFormat ==
  \A k \in DOMAIN id_results :
    /\ RecognizedMonth(id_args.month) => id_results[k] = Some(ExpectedId(id_args))
    /\ id_results[k] = id_results[1]
    /\ id_args = JohnSmith => id_results[k] = Some(<<"1","9","8","0","-","0","1","-","1","5","_","j","o","h","n","_","s","m","i","t","h">>)

\* a multi-part given name with punctuation and an upper-case month, called twice
C5_Witness ==
  /\ Len(id_results) = 2
  /\ id_args.given = <<" ","J","."," ","R","_","2"," ">>
  /\ id_args.surname = <<"O","'","N","e","i","l">>
  /\ id_args.day = <<"5">>
  /\ id_args.month = <<"F","E","B">>
  /\ id_results[2] = Some(<<"1","9","8","0","-","0","2","-","0","5","_","j","_","r","_","2","_","o","n","e","i","l">>)

(***************************************************************************)
(* Vocabulary of the claims about the scan: the kinds of input line, the   *)
(* person record a line belongs to, and the sequence number a download     *)
(* target's filename carries.                                              *)
(***************************************************************************)
IsBoundaryLine(raw) == is_new_person(strip(raw))
IsNameLine(raw) == ~IsBoundaryLine(raw) /\ startswith(strip(raw), NAME_PREFIX)
IsDateLine(raw) == ~IsBoundaryLine(raw) /\ startswith(strip(raw), DATE_PREFIX)
IsFileLine(raw) == ~IsBoundaryLine(raw) /\ startswith(strip(raw), FILE_PREFIX)

\* the most recent boundary line before line i, 0 when there is none
LastBoundary(i) ==
  LET bs == { j \in 1..(i - 1) : j <= Len(lines) /\ IsBoundaryLine(lines[j]) }
  IN  IF bs = {} THEN 0 ELSE CHOOSE j \in bs : \A k \in bs : k <= j
\* the lines before line i that belong to the record of line i
RecordBefore(i) == (LastBoundary(i) + 1)..(i - 1)

\* n as two decimal digits, 0 <= n <= 99
TwoDigits(n) == <<DigitChars[(n \div 10) + 1], DigitChars[(n % 10) + 1]>>
\* the filename ends in _<n as two digits>.jpg
HasSeq(filename, n) == EndsWith(filename, <<"_">> \o TwoDigits(n) \o <<".","j","p","g">>)

(***************************************************************************)
(* C1: a `2 FILE` line triggers a download only if both a `1 NAME ` line   *)
(* and a `2 DATE ` line have been seen since the most recent person        *)
(* boundary line, in either order; a boundary line clears the stored name  *)
(* and date, so the stored name and date are always lines of the current   *)
(* record.                                                                 *)
(***************************************************************************)
C1_PhotoNeedsNameAndDate ==
  /\ \A k \in DOMAIN calls :
       LET i == calls[k].line
       IN  /\ IsFileLine(lines[i])
           /\ \E n \in RecordBefore(i) : IsNameLine(lines[n])
           /\ \E d \in RecordBefore(i) : IsDateLine(lines[d])
  /\ LET here == Len(lines) + 1
     IN  /\ current_name.some =>
               \E n \in RecordBefore(here) :
                 IsNameLine(lines[n]) /\ current_name.val = strip(lines[n])
         /\ current_birth_date.some =>
               \E d \in RecordBefore(here) :
                 IsDateLine(lines[d]) /\ current_birth_date.val = strip(lines[d])

\* a photo line of a second person that has a date but only the first person's name
C1_Witness ==
  /\ Len(lines) = 4
  /\ IsNameLine(lines[1]) /\ create_person_id(strip(lines[1]), strip(L_DATE)).some
  /\ IsBoundaryLine(lines[2])
  /\ IsDateLine(lines[3]) /\ date_match(strip(lines[3])).some
  /\ IsFileLine(lines[4])
  /\ calls = <<>>

(***************************************************************************)
(* C2 as stated: the sequence number in a download target's filename is    *)
(* the number of `2 FILE` lines seen so far, this one included, since the  *)
(* most recent person boundary line.                                       *)
(***************************************************************************)
C2_SeqCountsFileLines ==
  \A k \in DOMAIN calls :
    LET i == calls[k].line
    IN  HasSeq(calls[k].filename,
               Cardinality({ j \in (LastBoundary(i) + 1)..i : IsFileLine(lines[j]) }))

(***************************************************************************)
(* C2 amended: the sequence number in a download target's filename is the  *)
(* number of `2 FILE` lines that triggered a download so far, this one     *)
(* included, since the most recent person boundary line (since the start   *)
(* of the input when there is none); it restarts at 1 after each boundary. *)
(***************************************************************************)
C2_SeqCountsDownloads ==
  \A k \in DOMAIN calls :
    LET i == calls[k].line
    IN  HasSeq(calls[k].filename,
               Cardinality({ m \in 1..k : calls[m].line > LastBoundary(i) }))

\* the first photo after a boundary line, when a photo was downloaded before it
C2_Witness ==
  \E k \in 2..Len(calls) :
    /\ LastBoundary(calls[k].line) > calls[k - 1].line
    /\ HasSeq(calls[k - 1].filename, 1)
    /\ HasSeq(calls[k].filename, 1)

(***************************************************************************)
(* C9 as stated: name, date and photo lines before the first person        *)
(* boundary line of the input belong to no person record and produce no    *)
(* download.                                                               *)
(***************************************************************************)
C9_NoDownloadBeforeFirstPerson ==
  \A k \in DOMAIN calls : LastBoundary(calls[k].line) > 0

(***************************************************************************)
(* C10: within one person record the sequence numbers of the downloads are *)
(* 1, 2, ..., k in input order without gap or repeat, whatever the skipped *)
(* photo lines, name or date overwrites and failed downloads between them, *)
(* and no two downloads of one record have the same target filename.       *)
(***************************************************************************)
C10_SeqGapless ==
  /\ \A k \in DOMAIN calls :
       IF k = 1 \/ calls[k - 1].line < LastBoundary(calls[k].line)
         THEN HasSeq(calls[k].filename, 1)
         ELSE \E n \in 1..Len(lines) :
                /\ HasSeq(calls[k - 1].filename, n)
                /\ HasSeq(calls[k].filename, n + 1)
  /\ \A k, m \in DOMAIN calls :
       (k < m /\ calls[k].line > LastBoundary(calls[m].line))
         => calls[k].filename # calls[m].filename

\* a skipped photo line, a failed download, then a second download of the record
C10_Witness ==
  /\ Len(calls) = 2
  /\ Len(lines) = 5
  /\ IsFileLine(lines[1])
  /\ calls[1].line = 4
  /\ calls[2].line = 5
  /\ returns = <<FALSE>>
  /\ HasSeq(calls[1].filename, 1)
  /\ HasSeq(calls[2].filename, 2)

(***************************************************************************)
(* The scan of the first n lines read when no download fails: the locals   *)
(* and the downloads it makes.                                             *)
(***************************************************************************)
RECURSIVE UndisturbedScan(_)
UndisturbedScan(n) ==
  IF n = 0 THEN [name |-> None, date |-> None, count |-> 0, targets |-> <<>>]
  ELSE
    LET p == UndisturbedScan(n - 1)
        raw == lines[n]
        id == create_person_id(p.name.val, p.date.val)
    IN  IF IsBoundaryLine(raw)
          THEN [p EXCEPT !.name = None, !.date = None, !.count = 0]
        ELSE IF IsNameLine(raw) THEN [p EXCEPT !.name = Some(strip(raw))]
        ELSE IF IsDateLine(raw) THEN [p EXCEPT !.date = Some(strip(raw))]
        ELSE IF IsFileLine(raw) /\ p.name.some /\ p.date.some /\ id.some
          THEN [p EXCEPT !.count = p.count + 1,
                         !.targets = Append(p.targets,
                            PHOTOS_DIR \o id.val \o <<"_">> \o TwoDigits(p.count + 1)
                                       \o <<".","j","p","g">>)]
        ELSE p

(***************************************************************************)
(* C3: a failed download never aborts the scan: download_photo returns     *)
(* failure instead of raising, and once a download has failed the lines    *)
(* read after it are processed as if it had succeeded: the locals and the  *)
(* download targets are those of the scan in which no download fails, and  *)
(* main still ends at end of file with exit code 0.                        *)
(***************************************************************************)
C3_FailedDownloadDoesNotAbort ==
  (\E k \in DOMAIN returns : ~returns[k]) =>
    LET e == UndisturbedScan(Len(lines))
    IN  /\ current_name = e.name
        /\ current_birth_date = e.date
        /\ photo_count = e.count
        /\ [k \in DOMAIN calls |-> calls[k].filename] = e.targets
        /\ pc \in {"scan", "download", "done"}
        /\ pc = "done" => exit_code = Some(0)

\* a failed download, then a later photo of the same record downloaded, then the end
C3_Witness ==
  /\ pc = "done"
  /\ returns = <<FALSE, TRUE>>
  /\ Len(lines) = 4
  /\ calls[1].line = 3
  /\ calls[2].line = 4

NamePattern(n) ==
  /\ Len(n) >= 7 /\ SubSeq(n, 1, 7) = NAME_PREFIX
  /\ \E p, q \in 8..Len(n) :
       /\ n[p] = " " /\ p + 1 <= Len(n) /\ n[p + 1] = "/"
       /\ q >= p + 2 /\ n[q] = "/"
\* the places <<i, j>> of the two spaces that delimit the month token when d is
\* `2 DATE `, digits, a space, word characters, a space, a digit
DateSplits(d) ==
  IF ~(Len(d) >= 7 /\ SubSeq(d, 1, 7) = DATE_PREFIX) THEN {}
  ELSE { ij \in (8..Len(d)) \X (8..Len(d)) :
           /\ ij[1] > 8 /\ ij[2] > ij[1] + 1 /\ ij[2] < Len(d)
           /\ d[ij[1]] = " " /\ d[ij[2]] = " "
           /\ \A k \in 8..(ij[1] - 1) : d[k] \in DigitSet
           /\ \A k \in (ij[1] + 1)..(ij[2] - 1) : d[k] \in WordSet
           /\ d[ij[2] + 1] \in DigitSet }
\* no identifier can be formed from the stored name line n and date line d
Malformed(n, d) ==
  \/ ~NamePattern(n)
  \/ DateSplits(d) = {}
  \/ \A ij \in DateSplits(d) : ~RecognizedMonth(SubSeq(d, ij[1] + 1, ij[2] - 1))

(***************************************************************************)
(* C6: when the stored name line does not match the name pattern, the      *)
(* stored date line does not match the date pattern or its month token is  *)
(* not a recognized month abbreviation, create_person_id returns no        *)
(* identifier, and a `2 FILE` line read then causes no download and leaves *)
(* the stored name, the stored date and the photo counter unchanged.       *)
(***************************************************************************)
C6_MalformedSkipsPhoto ==
  [][ ( /\ pc = "scan"
        /\ Len(lines') = Len(lines) + 1
        /\ IsFileLine(lines'[Len(lines')])
        /\ current_name.some
        /\ current_birth_date.some
        /\ Malformed(current_name.val, current_birth_date.val) )
      => ( /\ create_person_id(current_name.val, current_birth_date.val) = None
           /\ calls' = calls
           /\ in_flight' = in_flight
           /\ pc' = "scan"
           /\ current_name' = current_name
           /\ current_birth_date' = current_birth_date
           /\ photo_count' = photo_count ) ]_vars

\* a photo line read after a well-formed name and a date with an unknown month
C6_Witness ==
  /\ Len(lines) = 3
  /\ IsFileLine(lines[3])
  /\ current_name.some /\ NamePattern(current_name.val)
  /\ current_birth_date = Some(strip(L_DATE_MONTH))
  /\ Malformed(current_name.val, current_birth_date.val)
  /\ calls = <<>>
  /\ photo_count = 0
  /\ pc = "scan"

(***************************************************************************)
(* C7: last write wins: the identifier in the target of every download is  *)
(* derived from the most recent `1 NAME ` line and the most recent         *)
(* `2 DATE ` line that precede its `2 FILE` line within the same record;   *)
(* the targets of earlier downloads are those derived from the lines that  *)
(* preceded them, whatever name or date line came later.                   *)
(***************************************************************************)
C7_LastWriteWins ==
  \A k \in DOMAIN calls :
    LET i == calls[k].line
        ns == { j \in RecordBefore(i) : IsNameLine(lines[j]) }
        ds == { j \in RecordBefore(i) : IsDateLine(lines[j]) }
    IN  /\ ns # {}
        /\ ds # {}
        /\ LET n == CHOOSE j \in ns : \A m \in ns : m <= j
               d == CHOOSE j \in ds : \A m \in ds : m <= j
               id == create_person_id(strip(lines[n]), strip(lines[d]))
           IN  /\ id.some
               /\ \E c \in 1..Len(lines) :
                    calls[k].filename =
                      PHOTOS_DIR \o id.val \o <<"_">> \o TwoDigits(c) \o <<".","j","p","g">>

\* a photo, then a new name line, then a photo under the new name
C7_Witness ==
  /\ Len(calls) = 2
  /\ calls[1].filename = <<"p","h","o","t","o","s","/","1","9","8","0","-","0","1","-","1","5","_","a","l","_","n","g","_","0","1",".","j","p","g">>
  /\ calls[2].filename = <<"p","h","o","t","o","s","/","1","9","8","0","-","0","1","-","1","5","_","b","o","_","l","i","_","0","2",".","j","p","g">>
  /\ LastBoundary(calls[2].line) < calls[1].line

(***************************************************************************)
(* C8: the run is strictly sequential: the output directory is created     *)
(* before the first line is read, a download finishes before the next line *)
(* is read, so at most one download is in flight and it is that of the     *)
(* line read last, and the downloads occur in the order of their `2 FILE`  *)
(* lines, each for the URL of its line.                                    *)
(***************************************************************************)
C8_Sequential ==
  /\ lines # <<>> => photos_dir
  /\ Cardinality(in_flight) <= 1
  /\ in_flight # {} =>
       /\ pc = "download"
       /\ in_flight = {calls[Len(calls)]}
       /\ calls[Len(calls)].line = Len(lines)
  /\ pc = "download" => in_flight # {}
  /\ Len(returns) = Len(calls) - Cardinality(in_flight)
  /\ \A k, m \in DOMAIN calls : k < m => calls[k].line < calls[m].line
  /\ \A k \in DOMAIN calls :
       LET line == strip(lines[calls[k].line])
       IN  /\ IsFileLine(lines[calls[k].line])
           /\ calls[k].url = SubSeq(line, 8, Len(line))

\* the second download in flight after the first has returned
C8_Witness ==
  /\ Len(calls) = 2
  /\ returns = <<TRUE>>
  /\ in_flight = {calls[2]}
  /\ calls[1].url = <<"u","1">>
  /\ calls[2].url = <<"u","2">>

====
